---- MODULE Spec2Model ----
(***************************************************************************)
(* Level Poker (cuboids/5deck): the decks (BaseDeck / LevelDeck of         *)
(* models/models.py, BitfieldLevelDeck of models/level.py), the board      *)
(* dealing state machine (BaseBoard) and the hand strength evaluator       *)
(* (BaseHandStrengthEvaluator.evaluate_hand).                              *)
(***************************************************************************)
EXTENDS Integers, Sequences, FiniteSets, TLC

VARIABLES deck, board, ret, dealt, hand, strength, call, held

vars == <<deck, board, ret, dealt, hand, strength, call, held>>

tableVars == <<deck, board, ret, dealt>>

evalVars == <<hand, strength, call, held>>

(***************************************************************************)
(* Bounds of the model.                                                    *)
(***************************************************************************)
\* cards of the deck a board draws from (the program's decks hold 52)
NumCards == 6
\* cards of the deck that is shuffled and dealt from directly
DeckCards == 4
\* card levels run from 2 to MaxLevel (the program's run to 14)
MaxLevel == 3
\* largest n passed to deal(n) by a direct caller
MaxDeal == 3

(***************************************************************************)
(* Helpers: Python list operations.                                        *)
(***************************************************************************)
Range(s) == {s[i] : i \in DOMAIN s}

Min(a, b) == IF a <= b THEN a ELSE b

\* s[i:j] for 0 <= i <= j: the elements at 0-based positions i .. j-1 that exist
Slice(s, i, j) == SubSeq(s, i + 1, Min(j, Len(s)))

\* random.shuffle(s): some permutation of s
Shuffles(s) == {[i \in 1..Len(s) |-> s[p[i]]] : p \in Permutations(1..Len(s))}

(***************************************************************************)
(* Decks.  A deck is [kind, cards, index]; a BaseDeck never uses index.    *)
(* deal returns [deck, out, err]: the deck after the call, the list        *)
(* returned and the exception raised ("none" when the call returns).       *)
(***************************************************************************)
BaseDeck_init(size) == {[kind |-> "BaseDeck", cards |-> c, index |-> 0] :
                          c \in Shuffles([i \in 1..size |-> i])}

BaseDeck_shuffle(d) == {[d EXCEPT !.cards = c] : c \in Shuffles(d.cards)}

\* [self.cards.pop() for _ in range(n)]: pops from the end, one card at a
\* time; pop on the empty list raises IndexError after the earlier pops.
BaseDeck_deal(d, n) ==
    IF n <= Len(d.cards)
    THEN [deck |-> [d EXCEPT !.cards = SubSeq(d.cards, 1, Len(d.cards) - n)],
          out  |-> [i \in 1..n |-> d.cards[Len(d.cards) + 1 - i]],
          err  |-> "none"]
    ELSE [deck |-> [d EXCEPT !.cards = <<>>], out |-> <<>>, err |-> "IndexError"]

BaseDeck_len(d) == Len(d.cards)

BitfieldLevelDeck_init(size) ==
    {[kind |-> "BitfieldLevelDeck", cards |-> c, index |-> 0] :
        c \in Shuffles([i \in 1..size |-> i])}

BitfieldLevelDeck_shuffle(d) ==
    {[d EXCEPT !.cards = c, !.index = 0] : c \in Shuffles(d.cards)}

BitfieldLevelDeck_deal(d, n) ==
    [deck |-> [d EXCEPT !.index = d.index + n],
     out  |-> Slice(d.cards, d.index, d.index + n),
     err  |-> "none"]

BitfieldLevelDeck_len(d) == Len(d.cards) - d.index

\* dynamic dispatch on the deck's class
shuffle(d) == IF d.kind = "BaseDeck" THEN BaseDeck_shuffle(d)
              ELSE BitfieldLevelDeck_shuffle(d)

deal(d, n) == IF d.kind = "BaseDeck" THEN BaseDeck_deal(d, n)
              ELSE BitfieldLevelDeck_deal(d, n)

len(d) == IF d.kind = "BaseDeck" THEN BaseDeck_len(d)
          ELSE BitfieldLevelDeck_len(d)

(***************************************************************************)
(* Board.  A call works on w = [deck, board, err, got, val]: err is the    *)
(* exception that ended the call, got the cards deck.deal returned to it,  *)
(* val the value the call returns when no exception ends it.               *)
(***************************************************************************)
BaseBoard_init == [cards |-> <<>>, flop_was_dealt |-> FALSE,
                   turn_was_dealt |-> FALSE, river_was_dealt |-> FALSE]

Call(d, b) == [deck |-> d, board |-> b, err |-> "none", got |-> <<>>,
               val |-> "None"]

deal_flop(w) ==
    IF w.board.turn_was_dealt \/ w.board.river_was_dealt
    THEN [w EXCEPT !.err = "ValueError"]
    ELSE LET r == deal(w.deck, 3) IN
         IF r.err # "none"
         THEN [w EXCEPT !.deck = r.deck, !.err = r.err]
         ELSE [w EXCEPT !.deck = r.deck,
                        !.board.cards = @ \o r.out,
                        !.board.flop_was_dealt = TRUE,
                        !.got = @ \o r.out]

\* deal_turn without its check of the flop
deal_turn_unchecked(w) ==
    IF w.board.river_was_dealt
    THEN [w EXCEPT !.err = "ValueError"]
    ELSE LET r == deal(w.deck, 1) IN
         IF r.err # "none"
         THEN [w EXCEPT !.deck = r.deck, !.err = r.err]
         ELSE [w EXCEPT !.deck = r.deck,
                        !.board.cards = @ \o r.out,
                        !.board.turn_was_dealt = TRUE,
                        !.got = @ \o r.out]

deal_turn(w) ==
    IF ~w.board.flop_was_dealt
    THEN [w EXCEPT !.err = "ValueError"]
    ELSE IF w.board.river_was_dealt
    THEN [w EXCEPT !.err = "ValueError"]
    ELSE LET r == deal(w.deck, 1) IN
         IF r.err # "none"
         THEN [w EXCEPT !.deck = r.deck, !.err = r.err]
         ELSE [w EXCEPT !.deck = r.deck,
                        !.board.cards = @ \o r.out,
                        !.board.turn_was_dealt = TRUE,
                        !.got = @ \o r.out]

deal_river(w) ==
    IF ~w.board.flop_was_dealt \/ ~w.board.turn_was_dealt
    THEN [w EXCEPT !.err = "ValueError"]
    ELSE LET r == deal(w.deck, 1) IN
         IF r.err # "none"
         THEN [w EXCEPT !.deck = r.deck, !.err = r.err]
         ELSE [w EXCEPT !.deck = r.deck,
                        !.board.cards = @ \o r.out,
                        !.board.river_was_dealt = TRUE,
                        !.got = @ \o r.out]

\* run_it_once without its third if
run_it_once_no_river(w) ==
    LET w1 == IF ~w.board.flop_was_dealt THEN deal_flop(w) ELSE w
        w2 == IF w1.err # "none" THEN w1
              ELSE IF ~w1.board.turn_was_dealt THEN deal_turn(w1) ELSE w1
    IN w2

\* the three ifs in sequence; an exception ends the call
run_it_once(w) ==
    LET w1 == IF ~w.board.flop_was_dealt THEN deal_flop(w) ELSE w
        w2 == IF w1.err # "none" THEN w1
              ELSE IF ~w1.board.turn_was_dealt THEN deal_turn(w1) ELSE w1
        w3 == IF w2.err # "none" THEN w2
              ELSE IF ~w2.board.river_was_dealt THEN deal_river(w2) ELSE w2
    IN w3

\* return NotImplemented: the call returns, with the constant as its value
run_it_twice(w) == [w EXCEPT !.val = "NotImplemented"]

\* def run_it_thrice() takes no self: a call on an instance raises TypeError
\* before the body runs
run_it_thrice(w) == [w EXCEPT !.err = "TypeError"]

(***************************************************************************)
(* Cards and the hand strength tuple.  A card is [rank, suit, level];      *)
(* a suit is the code point of its symbol, which is what the sort key      *)
(* compares.  A field of HandStrengthTup is None or Some(v).               *)
(***************************************************************************)
ACE == 14
SPADES == 9824
CLUBS == 9827
HEARTS == 9829
DIAMONDS == 9830

Card(r, s, l) == [rank |-> r, suit |-> s, level |-> l]

None == <<>>

Some(v) == <<v>>

\* namedtuple("HandStrengthTup", [...], defaults=[None] * 13)
HandStrengthTup ==
    [level |-> None, tier |-> None, category |-> None,
     group1 |-> None, group2 |-> None, group3 |-> None, group4 |-> None,
     group5 |-> None, level1 |-> None, level2 |-> None, level3 |-> None,
     level4 |-> None, level5 |-> None]

\* tuple(h for h in hs[1] if h is not None): the key main() sorts strengths by
TupleOf(t) ==
    t.level \o t.tier \o t.category \o t.group1 \o t.group2 \o t.group3
    \o t.group4 \o t.group5 \o t.level1 \o t.level2 \o t.level3 \o t.level4
    \o t.level5

\* Python's order on tuples of integers: a < b
RECURSIVE TupleLess(_, _)
TupleLess(a, b) ==
    IF b = <<>> THEN FALSE
    ELSE IF a = <<>> THEN TRUE
    ELSE IF Head(a) # Head(b) THEN Head(a) < Head(b)
    ELSE TupleLess(Tail(a), Tail(b))

Front(s) == SubSeq(s, 1, Len(s) - 1)

Last(s) == s[Len(s)]

(***************************************************************************)
(* evaluate_hand, step by step.                                            *)
(***************************************************************************)
\* a sort key of the rank alone
SortKey_rank_only(c) == <<c.rank>>

\* key=lambda c: (c.rank.value, c.level.value, c.suit.value)
SortKey(c) == <<c.rank, c.level, c.suit>>

\* x goes behind every card whose key is not smaller: the sort is stable,
\* and reverse=True keeps cards of equal key in their input order
RECURSIVE InsertCard(_, _)
InsertCard(x, s) ==
    IF s = <<>> THEN <<x>>
    ELSE IF TupleLess(SortKey(Head(s)), SortKey(x)) THEN <<x>> \o s
    ELSE <<Head(s)>> \o InsertCard(x, Tail(s))

\* sorted(cards, key=..., reverse=True)
RECURSIVE sorted_reverse(_)
sorted_reverse(cards) ==
    IF cards = <<>> THEN <<>>
    ELSE InsertCard(Last(cards), sorted_reverse(Front(cards)))

\* min(card.level.value for card in cards), cards not empty
min_level(cards) ==
    CHOOSE m \in {cards[i].level : i \in DOMAIN cards} :
        \A i \in DOMAIN cards : m <= cards[i].level

\* Counter(ranks): count[r], and its keys in the order of first occurrence
Count(ranks, r) == Cardinality({i \in DOMAIN ranks : ranks[i] = r})

RECURSIVE CountKeys(_)
CountKeys(ranks) ==
    IF ranks = <<>> THEN <<>>
    ELSE LET k == CountKeys(Front(ranks)) IN
         IF Last(ranks) \in Range(k) THEN k ELSE Append(k, Last(ranks))

RECURSIVE InsertDesc(_, _)
InsertDesc(x, s) ==
    IF s = <<>> THEN <<x>>
    ELSE IF Head(s) < x THEN <<x>> \o s
    ELSE <<Head(s)>> \o InsertDesc(x, Tail(s))

RECURSIVE SortedDesc(_)
SortedDesc(s) == IF s = <<>> THEN <<>> ELSE InsertDesc(Last(s), SortedDesc(Front(s)))

\* sorted(count.values(), reverse=True)
Counts(ranks) ==
    LET k == CountKeys(ranks) IN SortedDesc([i \in DOMAIN k |-> Count(ranks, k[i])])

\* [r for r, c in count.items() if c == n]
RanksWithCount(ranks, n) ==
    LET Is(r) == Count(ranks, r) = n IN SelectSeq(CountKeys(ranks), Is)

\* [r for r in ranks if r not in group]
RanksNotIn(ranks, group) ==
    LET Out(r) == r \notin Range(group) IN SelectSeq(ranks, Out)

\* len(set(suits)) == 1
is_flush(suits) == Cardinality(Range(suits)) = 1

\* the straight test without the wheel
is_straight_no_wheel(ranks) == ranks = [i \in 1..5 |-> ranks[1] - (i - 1)]

\* ranks == list(range(ranks[0], ranks[0] - 5, -1)), or the wheel
is_straight(ranks) ==
    \/ ranks = [i \in 1..5 |-> ranks[1] - (i - 1)]
    \/ ranks = <<14, 5, 4, 3, 2>>

\* the ranks left as sorted, the wheel's ace on top
wheel_ranks_no_remap(ranks) == ranks

\* if ranks == [14, 5, 4, 3, 2]: ranks = [5, 4, 3, 2, 1]
wheel_ranks(ranks) ==
    IF ranks = <<14, 5, 4, 3, 2>> THEN <<5, 4, 3, 2, 1>> ELSE ranks

Return(t) == [err |-> "none", tup |-> t]

Raise(e) == [err |-> e, tup |-> HandStrengthTup]

RoyalFlush(level) ==
    [HandStrengthTup EXCEPT !.level = Some(level - 2), !.tier = Some(4),
                            !.category = Some(4)]

\* a straight flush under the tier code of the flush
StraightFlush_tier1(level) ==
    [HandStrengthTup EXCEPT !.level = Some(level - 2), !.tier = Some(1),
                            !.category = Some(4)]

StraightFlush(level) ==
    [HandStrengthTup EXCEPT !.level = Some(level - 2), !.tier = Some(3),
                            !.category = Some(4)]

FourOfAKind(level, ranks, levels, count) ==
    LET four   == RanksWithCount(count, 4)
        kicker == RanksNotIn(ranks, four)
    IN [HandStrengthTup EXCEPT !.level = Some(level - 2), !.tier = Some(2),
                               !.category = Some(2),
                               !.group1 = Some(four[1] - 2),
                               !.group2 = Some(kicker[1] - 2),
                               !.level5 = Some(levels[5] - 2)]

FullHouse(level, ranks, levels, count) ==
    LET triple == RanksWithCount(count, 3)
        pair   == RanksWithCount(count, 2)
    IN [HandStrengthTup EXCEPT !.level = Some(level - 2), !.tier = Some(2),
                               !.category = Some(1),
                               !.group1 = Some(triple[1] - 2),
                               !.group2 = Some(pair[1] - 2),
                               !.level1 = Some(levels[1] - 2),
                               !.level4 = Some(levels[4] - 2),
                               !.level5 = Some(levels[5] - 2)]

Flush(level, ranks) ==
    [HandStrengthTup EXCEPT !.level = Some(level - 2), !.tier = Some(1),
                            !.category = Some(3),
                            !.group1 = Some(ranks[1] - 2),
                            !.group2 = Some(ranks[2] - 2),
                            !.group3 = Some(ranks[3] - 2),
                            !.group4 = Some(ranks[4] - 2),
                            !.group5 = Some(ranks[5] - 2)]

Straight(level, ranks, levels) ==
    [HandStrengthTup EXCEPT !.level = Some(level - 2), !.tier = Some(1),
                            !.category = Some(2),
                            !.group1 = Some(ranks[1] - 2),
                            !.level1 = Some(levels[1] - 2),
                            !.level2 = Some(levels[2] - 2),
                            !.level3 = Some(levels[3] - 2),
                            !.level4 = Some(levels[4] - 2),
                            !.level5 = Some(levels[5] - 2)]

ThreeOfAKind(level, ranks, levels, count) ==
    LET triple  == RanksWithCount(count, 3)
        kickers == RanksNotIn(ranks, triple)
    IN [HandStrengthTup EXCEPT !.level = Some(level - 2), !.tier = Some(1),
                               !.category = Some(0),
                               !.group1 = Some(triple[1] - 2),
                               !.group2 = Some(kickers[1] - 2),
                               !.group3 = Some(kickers[2] - 2),
                               !.level1 = Some(levels[1] - 2),
                               !.level4 = Some(levels[4] - 2),
                               !.level5 = Some(levels[5] - 2)]

TwoPair(level, ranks, levels, count) ==
    LET pairs  == SortedDesc(RanksWithCount(count, 2))
        kicker == RanksNotIn(ranks, pairs)
    IN [HandStrengthTup EXCEPT !.level = Some(level - 2), !.tier = Some(0),
                               !.category = Some(2),
                               !.group1 = Some(pairs[1] - 2),
                               !.group2 = Some(pairs[2] - 2),
                               !.group3 = Some(kicker[1] - 2),
                               !.level1 = Some(levels[1] - 2),
                               !.level2 = Some(levels[2] - 2),
                               !.level3 = Some(levels[3] - 2),
                               !.level4 = Some(levels[4] - 2),
                               !.level5 = Some(levels[5] - 2)]

OnePair(level, ranks, levels, count) ==
    LET pair    == RanksWithCount(count, 2)
        kickers == RanksNotIn(ranks, pair)
    IN [HandStrengthTup EXCEPT !.level = Some(level - 2), !.tier = Some(0),
                               !.category = Some(1),
                               !.group1 = Some(pair[1] - 2),
                               !.group2 = Some(kickers[1] - 2),
                               !.group3 = Some(kickers[2] - 2),
                               !.group4 = Some(kickers[3] - 2),
                               !.level1 = Some(levels[1] - 2),
                               !.level2 = Some(levels[2] - 2),
                               !.level3 = Some(levels[3] - 2),
                               !.level4 = Some(levels[4] - 2),
                               !.level5 = Some(levels[5] - 2)]

HighCard(level, ranks, levels) ==
    [HandStrengthTup EXCEPT !.level = Some(level - 2), !.tier = Some(0),
                            !.category = Some(0),
                            !.group1 = Some(ranks[1] - 2),
                            !.group2 = Some(ranks[2] - 2),
                            !.group3 = Some(ranks[3] - 2),
                            !.group4 = Some(ranks[4] - 2),
                            !.group5 = Some(ranks[5] - 2),
                            !.level1 = Some(levels[1] - 2),
                            !.level2 = Some(levels[2] - 2),
                            !.level3 = Some(levels[3] - 2),
                            !.level4 = Some(levels[4] - 2),
                            !.level5 = Some(levels[5] - 2)]

\* The whole function.  min() of no cards raises ValueError; ranks[4] of
\* fewer than five cards raises IndexError (the flush and high-card
\* branches; the count branches are only met with five cards).
evaluate_hand(cards) ==
    IF cards = <<>> THEN Raise("ValueError")
    ELSE
    LET level    == min_level(cards)
        sorted   == sorted_reverse(cards)
        count    == [i \in DOMAIN sorted |-> sorted[i].rank]
        levels   == [i \in DOMAIN sorted |-> sorted[i].level]
        suits    == [i \in DOMAIN sorted |-> sorted[i].suit]
        counts   == Counts(count)
        flush    == is_flush(suits)
        straight == is_straight(count)
        ranks    == wheel_ranks(count)
    IN  IF flush /\ straight
        THEN IF ranks[1] = ACE THEN Return(RoyalFlush(level))
             ELSE Return(StraightFlush(level))
        ELSE IF counts = <<4, 1>>
        THEN Return(FourOfAKind(level, ranks, levels, count))
        ELSE IF counts = <<3, 2>>
        THEN Return(FullHouse(level, ranks, levels, count))
        ELSE IF flush
        THEN IF Len(ranks) < 5 THEN Raise("IndexError")
             ELSE Return(Flush(level, ranks))
        ELSE IF straight
        THEN Return(Straight(level, ranks, levels))
        ELSE IF counts = <<3, 1, 1>>
        THEN Return(ThreeOfAKind(level, ranks, levels, count))
        ELSE IF counts = <<2, 2, 1>>
        THEN Return(TwoPair(level, ranks, levels, count))
        ELSE IF counts = <<2, 1, 1, 1>>
        THEN Return(OnePair(level, ranks, levels, count))
        ELSE IF Len(ranks) < 5 THEN Raise("IndexError")
        ELSE Return(HighCard(level, ranks, levels))

(***************************************************************************)
(* The deck and the board as a state machine: one deck, one BaseBoard      *)
(* drawing from it, and the callers of both.                               *)
(*   ret    the last call: its name, argument, the cards it handed out,    *)
(*          its exception and the kind of value it returned                *)
(*   dealt  the cards deal has returned so far                             *)
(***************************************************************************)
NoCall == [op |-> "none", n |-> 0, out |-> <<>>, err |-> "none", val |-> "None"]

NoStrength == [err |-> "not called", tup |-> HandStrengthTup]

NoHand ==
    /\ hand = <<>>
    /\ strength = NoStrength
    /\ call = "none"
    /\ held = NoStrength

Shuffle ==
    /\ deck' \in shuffle(deck)
    /\ ret' = [op |-> "shuffle", n |-> 0, out |-> <<>>, err |-> "none",
               val |-> "None"]
    /\ UNCHANGED <<board, dealt, evalVars>>

\* a deal past the end moves the bitfield deck's index on without limit:
\* callers stop once the index has passed the last card
Deal(n) ==
    /\ deck.index <= Len(deck.cards)
    /\ LET r == deal(deck, n) IN
        /\ deck' = r.deck
        /\ ret' = [op |-> "deal", n |-> n, out |-> r.out, err |-> r.err,
                   val |-> IF r.err = "none" THEN "list" ELSE "None"]
        /\ dealt' = dealt \cup Range(r.out)
    /\ UNCHANGED <<board, evalVars>>

BoardCall(name, w) ==
    /\ deck' = w.deck
    /\ board' = w.board
    /\ ret' = [op |-> name, n |-> 0, out |-> w.got, err |-> w.err,
               val |-> w.val]
    /\ dealt' = dealt \cup Range(w.got)
    /\ UNCHANGED evalVars

DealFlop == BoardCall("deal_flop", deal_flop(Call(deck, board)))

DealTurn == BoardCall("deal_turn", deal_turn(Call(deck, board)))

DealRiver == BoardCall("deal_river", deal_river(Call(deck, board)))

RunItOnce == BoardCall("run_it_once", run_it_once(Call(deck, board)))

RunItTwice == BoardCall("run_it_twice", run_it_twice(Call(deck, board)))

RunItThrice == BoardCall("run_it_thrice", run_it_thrice(Call(deck, board)))

\* a board on a fresh BaseDeck; hands are dealt from the deck directly
Init ==
    /\ deck \in BaseDeck_init(NumCards)
    /\ board = BaseBoard_init
    /\ ret = NoCall
    /\ dealt = {}
    /\ NoHand

Next ==
    \/ \E n \in 1..MaxDeal : Deal(n)
    \/ DealFlop
    \/ DealTurn
    \/ DealRiver
    \/ RunItOnce

Spec == Init /\ [][Next]_vars

\* a board and every method of it, the run-outs of two and three included
NextRunOut ==
    \/ DealFlop
    \/ DealTurn
    \/ DealRiver
    \/ RunItOnce
    \/ RunItTwice
    \/ RunItThrice

SpecRunOut == Init /\ [][NextRunOut]_vars

\* a deck of either class on its own, shuffled and dealt from
InitDeck ==
    /\ deck \in BaseDeck_init(DeckCards) \cup BitfieldLevelDeck_init(DeckCards)
    /\ board = BaseBoard_init
    /\ ret = NoCall
    /\ dealt = {}
    /\ NoHand

NextDeck ==
    \/ Shuffle
    \/ \E n \in 1..MaxDeal : Deal(n)

SpecDeck == InitDeck /\ [][NextDeck]_vars

(***************************************************************************)
(* The evaluator's callers.  hand is the list of cards a caller holds,     *)
(* strength what the last evaluate_hand call returned or raised, call how  *)
(* the list was passed, held a strength kept from an earlier hand (main()  *)
(* keeps every strength and sorts them by TupleOf).                        *)
(***************************************************************************)
Levels == 2..MaxLevel

RECURSIVE SeqOfSet(_)
SeqOfSet(S) ==
    IF S = {} THEN <<>>
    ELSE LET m == CHOOSE x \in S : \A y \in S : x <= y
         IN <<m>> \o SeqOfSet(S \ {m})

\* the k cards of pack at rising positions, every card at every level
Hands(pack, k) ==
    {[i \in 1..k |-> Card(pack[ix[i]][1], pack[ix[i]][2], lv[i])] :
        ix \in {SeqOfSet(S) : S \in {T \in SUBSET DOMAIN pack : Cardinality(T) = k}},
        lv \in [1..k -> Levels]}

\* five cards, the last one a second copy of the first (rank and suit)
Duplicated(pack) ==
    {[h EXCEPT ![5] = Card(h[1].rank, h[1].suit, l)] :
        h \in Hands(pack, 5), l \in Levels}

\* spades from the deuce to the seven and from the ten to the ace, and two
\* hearts that break the flush of the straights
EvalPack ==
    << <<2, SPADES>>, <<3, SPADES>>, <<4, SPADES>>, <<5, SPADES>>,
       <<6, SPADES>>, <<7, SPADES>>, <<10, SPADES>>, <<11, SPADES>>,
       <<12, SPADES>>, <<13, SPADES>>, <<ACE, SPADES>>,
       <<3, HEARTS>>, <<12, HEARTS>> >>

SmallPack ==
    << <<2, HEARTS>>, <<3, SPADES>>, <<4, DIAMONDS>>, <<5, CLUBS>>,
       <<ACE, HEARTS>>, <<ACE, SPADES>> >>

FirstPack ==
    << <<2, SPADES>>, <<3, SPADES>>, <<4, SPADES>>, <<5, SPADES>>,
       <<6, SPADES>>, <<ACE, SPADES>> >>

SecondPack ==
    << <<2, HEARTS>>, <<13, SPADES>>, <<13, CLUBS>>, <<13, HEARTS>>,
       <<13, DIAMONDS>>, <<ACE, HEARTS>> >>

NoTable ==
    /\ deck = [kind |-> "BaseDeck", cards |-> <<>>, index |-> 0]
    /\ board = BaseBoard_init
    /\ ret = NoCall
    /\ dealt = {}

\* evaluate_hand(hand)
Evaluate ==
    /\ strength' = evaluate_hand(hand)
    /\ call' = "evaluate"
    /\ UNCHANGED <<hand, held, tableVars>>

\* evaluate_hand on the same cards in another order
EvaluateReordered(p) ==
    /\ strength' = evaluate_hand([i \in DOMAIN hand |-> hand[p[i]]])
    /\ call' = "reordered"
    /\ UNCHANGED <<hand, held, tableVars>>

\* the first strength is kept and the next hand comes up
KeepAndDraw(h) ==
    /\ strength.err = "none"
    /\ held = NoStrength
    /\ held' = strength
    /\ hand' = h
    /\ strength' = NoStrength
    /\ call' = "none"
    /\ UNCHANGED tableVars

\* out.add((str(b.cards), strength)): the strength is kept together with
\* the cards it was computed from, and the next hand comes up
KeepWithCards(h) ==
    /\ strength.err = "none"
    /\ held = NoStrength
    /\ held' = [err |-> strength.err, tup |-> strength.tup, cards |-> hand]
    /\ hand' = h
    /\ strength' = NoStrength
    /\ call' = "none"
    /\ UNCHANGED tableVars

\* any list of cards: hands of five, lists too short or too long, a list
\* with a duplicated card, the empty list
InitEval ==
    /\ NoTable
    /\ \/ hand \in Hands(EvalPack, 5)
       \/ hand \in Hands(SmallPack, 4)
       \/ hand \in Hands(SmallPack, 6)
       \/ hand \in Duplicated(SmallPack)
       \/ hand = <<>>
    /\ strength = NoStrength
    /\ call = "none"
    /\ held = NoStrength

NextEval == Evaluate

SpecEval == InitEval /\ [][NextEval]_vars

\* one hand of five, passed in every order
InitPerm ==
    /\ NoTable
    /\ hand \in Hands(SmallPack, 5)
    /\ strength = NoStrength
    /\ call = "none"
    /\ held = NoStrength

NextPerm ==
    \/ Evaluate
    \/ \E p \in Permutations(DOMAIN hand) : EvaluateReordered(p)

SpecPerm == InitPerm /\ [][NextPerm]_vars

\* two hands, one after the other, and their strengths side by side
InitCompare ==
    /\ NoTable
    /\ hand \in Hands(FirstPack, 5)
    /\ strength = NoStrength
    /\ call = "none"
    /\ held = NoStrength

NextCompare ==
    \/ Evaluate
    \/ \E h \in Hands(SecondPack, 5) : KeepAndDraw(h)

SpecCompare == InitCompare /\ [][NextCompare]_vars

\* two hands out of the same six suited cards (straight flushes, the wheel
\* among them, and flushes), the first kept with its cards
NextKicker ==
    \/ Evaluate
    \/ \E h \in Hands(FirstPack, 5) : KeepWithCards(h)

SpecKicker == InitCompare /\ [][NextKicker]_vars


(***************************************************************************)
(* Properties.                                                             *)
(***************************************************************************)
Called == call # "none"

\* five cards, no two of the same rank and suit
IsValidHand(h) ==
    /\ Len(h) = 5
    /\ \A i, j \in DOMAIN h : i # j => (h[i].rank # h[j].rank \/ h[i].suit # h[j].suit)

HasDuplicate(h) ==
    \E i, j \in DOMAIN h : i # j /\ h[i].rank = h[j].rank /\ h[i].suit = h[j].suit

RankSet(h) == {h[i].rank : i \in DOMAIN h}

SameSuit(h) == Cardinality({h[i].suit : i \in DOMAIN h}) = 1

\* ace, five, four, three, deuce, not all of one suit
IsWheel(h) == IsValidHand(h) /\ RankSet(h) = {ACE, 5, 4, 3, 2} /\ ~SameSuit(h)

\* the level of the card of rank r in a hand of five ranks
LevelOf(h, r) == h[CHOOSE i \in DOMAIN h : h[i].rank = r].level

IsStraightFlushTup(t) == t.category = Some(4)

IsFourOfAKindTup(t) == t.tier = Some(2) /\ t.category = Some(2)

IsStraightTup(t) == t.tier = Some(1) /\ t.category = Some(2)

\* C1: evaluate_hand is order-independent: a call on five distinct cards
\* returns, and every later call on the same cards, in whatever order
\* they are passed, returns the identical HandStrengthTup (all 13 fields).
C1_PermutationInvariant ==
    [][(Called /\ hand' = hand /\ call' \in {"evaluate", "reordered"})
        => (strength.err = "none" /\ strength' = strength)]_vars

\* a hand holding two cards of one rank at different levels has been
\* evaluated in another order
C1_Witness ==
    /\ call = "reordered"
    /\ strength.err = "none"
    /\ \E i, j \in DOMAIN hand :
          hand[i].rank = hand[j].rank /\ hand[i].level # hand[j].level

\* the card count and the flags of the four states of the board
BoardShape ==
    /\ Len(board.cards) \in {0, 3, 4, 5}
    /\ board.river_was_dealt => board.turn_was_dealt
    /\ board.turn_was_dealt => board.flop_was_dealt
    /\ ~board.flop_was_dealt => Len(board.cards) = 0
    /\ (board.flop_was_dealt /\ ~board.turn_was_dealt) => Len(board.cards) = 3
    /\ (board.turn_was_dealt /\ ~board.river_was_dealt) => Len(board.cards) = 4
    /\ board.river_was_dealt => Len(board.cards) = 5

FlagsOnlyRise ==
    /\ board.flop_was_dealt => board'.flop_was_dealt
    /\ board.turn_was_dealt => board'.turn_was_dealt
    /\ board.river_was_dealt => board'.river_was_dealt

\* C2: whatever board calls were made, the board holds 0, 3, 4 or 5 cards,
\* the flags are set in order (river implies turn implies flop) and never
\* cleared, with no card before the flop, exactly 3 cards once the flop is
\* dealt, 4 once the turn is dealt and 5 once the river is dealt.
C2_BoardInvariant == []BoardShape /\ [][FlagsOnlyRise]_vars

\* C3: deal(n) returns exactly n cards when n is at most the remaining
\* count and raises when n exceeds it, never a short or empty list.
C3_DealAllOrRaise ==
    [][\A n \in 1..MaxDeal :
         Deal(n) => IF n <= len(deck)
                    THEN ret'.err = "none" /\ Len(ret'.out) = n
                    ELSE ret'.err # "none"]_vars

\* C4: evaluate_hand raises on a list that is not of exactly five cards
\* and on a list holding two cards of the same rank and suit.
C4_RejectsMalformed ==
    (Called /\ (Len(hand) # 5 \/ HasDuplicate(hand))) => strength.err # "none"

\* C5 as stated: a straight flush compares strictly greater than a four of
\* a kind, whatever the levels of the cards of either hand.
C5_StraightFlushBeatsQuads ==
    (held.err = "none" /\ strength.err = "none"
     /\ IsStraightFlushTup(held.tup) /\ IsFourOfAKindTup(strength.tup))
    => TupleLess(TupleOf(strength.tup), TupleOf(held.tup))

\* C5 amended: a straight flush whose hand level (the lowest level of its
\* cards) is at least that of a four of a kind compares strictly greater,
\* whatever the group and level fields are.
C5_StraightFlushBeatsQuadsOfNoHigherLevel ==
    (held.err = "none" /\ strength.err = "none"
     /\ IsStraightFlushTup(held.tup) /\ IsFourOfAKindTup(strength.tup)
     /\ held.tup.level[1] >= strength.tup.level[1])
    => TupleLess(TupleOf(strength.tup), TupleOf(held.tup))

\* a straight flush is held against a four of a kind of the same hand level
\* whose kicker level is higher
C5_Witness ==
    /\ held.err = "none" /\ strength.err = "none"
    /\ IsStraightFlushTup(held.tup) /\ IsFourOfAKindTup(strength.tup)
    /\ held.tup.level = strength.tup.level
    /\ strength.tup.level5[1] > strength.tup.level[1]

\* C6: ace, five, four, three, deuce not of one suit is a straight whose
\* group1 is 5 - 2 = 3, at any levels, and every other straight has a
\* strictly higher group1.
C6_WheelLowestStraight ==
    Called =>
      /\ IsWheel(hand) =>
            /\ strength.err = "none"
            /\ IsStraightTup(strength.tup)
            /\ strength.tup.group1 = Some(3)
      /\ (IsValidHand(hand) /\ ~IsWheel(hand) /\ strength.err = "none"
          /\ IsStraightTup(strength.tup)) => strength.tup.group1[1] > 3

\* a wheel with cards of different levels has been evaluated
C6_Witness ==
    /\ Called
    /\ IsWheel(hand)
    /\ LevelOf(hand, ACE) # LevelOf(hand, 5)
    /\ strength.tup.group1 = Some(3)

\* C7: the levels a wheel's strength carries follow the remapped ranks
\* 5, 4, 3, 2, 1: level1 is the level of the five, level5 that of the ace.
C7_WheelLevelsAligned ==
    (Called /\ IsWheel(hand)) =>
      /\ strength.tup.level1 = Some(LevelOf(hand, 5) - 2)
      /\ strength.tup.level2 = Some(LevelOf(hand, 4) - 2)
      /\ strength.tup.level3 = Some(LevelOf(hand, 3) - 2)
      /\ strength.tup.level4 = Some(LevelOf(hand, 2) - 2)
      /\ strength.tup.level5 = Some(LevelOf(hand, ACE) - 2)

\* C8: however shuffle and deal are interleaved, deal never returns a card
\* it has returned before, and the undealt count never increases.
C8_NoCardTwiceCountFalls ==
    [][/\ \A n \in 1..MaxDeal :
             Deal(n) => /\ Range(ret'.out) \cap dealt = {}
                        /\ Cardinality(Range(ret'.out)) = Len(ret'.out)
       /\ len(deck') <= len(deck)]_vars

\* C9: deal_turn before the flop, and deal_river before the flop or the
\* turn, raise and leave the board's cards and flags and the deck as
\* they were.
C9_OutOfOrderRejected ==
    [][/\ (DealTurn /\ ~board.flop_was_dealt)
            => (ret'.err = "ValueError" /\ board' = board /\ deck' = deck)
       /\ (DealRiver /\ (~board.flop_was_dealt \/ ~board.turn_was_dealt))
            => (ret'.err = "ValueError" /\ board' = board /\ deck' = deck)]_vars

\* deal_turn has been refused on a board without a flop
C9_Witness ==
    /\ ret.op = "deal_turn"
    /\ ret.err = "ValueError"
    /\ ~board.flop_was_dealt
    /\ Len(deck.cards) < NumCards

\* the state of the board: its flags and the card count that goes with them
BoardState(b) ==
    IF ~b.flop_was_dealt /\ ~b.turn_was_dealt /\ ~b.river_was_dealt
       /\ Len(b.cards) = 0 THEN "Empty"
    ELSE IF b.flop_was_dealt /\ ~b.turn_was_dealt /\ ~b.river_was_dealt
       /\ Len(b.cards) = 3 THEN "FlopDealt"
    ELSE IF b.flop_was_dealt /\ b.turn_was_dealt /\ ~b.river_was_dealt
       /\ Len(b.cards) = 4 THEN "TurnDealt"
    ELSE IF b.flop_was_dealt /\ b.turn_was_dealt /\ b.river_was_dealt
       /\ Len(b.cards) = 5 THEN "RiverDealt"
    ELSE "other"

\* C10: run_it_once on a board in one of the states Empty (no card),
\* FlopDealt (3 cards), TurnDealt (4) or RiverDealt (5), with a deck
\* holding the missing cards, returns with 5 board cards and the three
\* flags set; the cards it adds are the next cards of the deck in the
\* order dealt (flop, turn, river), behind the cards already there.
C10_RunItOnceCompletes ==
    [][(RunItOnce /\ BoardState(board) # "other"
        /\ len(deck) >= 5 - Len(board.cards))
       => LET k == 5 - Len(board.cards) IN
          /\ ret'.err = "none"
          /\ BoardState(board') = "RiverDealt"
          /\ board'.cards =
               board.cards \o [i \in 1..k |-> deck.cards[Len(deck.cards) + 1 - i]]
          /\ deck'.cards = SubSeq(deck.cards, 1, Len(deck.cards) - k)]_vars

\* run_it_once has dealt the turn and the river behind a flop
C10_Witness ==
    /\ ret.op = "run_it_once"
    /\ ret.err = "none"
    /\ Len(ret.out) = 2
    /\ BoardState(board) = "RiverDealt"

\* five cards of one suit whose ranks are consecutive, or the wheel's
IsStraightFlushHand(h) ==
    /\ IsValidHand(h)
    /\ SameSuit(h)
    /\ \/ \E r \in 2..10 : RankSet(h) = r..(r + 4)
       \/ RankSet(h) = {ACE, 5, 4, 3, 2}

IsRoyalHand(h) == IsStraightFlushHand(h) /\ RankSet(h) = 10..ACE

\* suited ten to ace, every card at level l
RoyalAt(l) == [i \in 1..5 |-> Card(9 + i, SPADES, l)]

C12_RunOutsUnsupported ==
    [][(RunItTwice \/ RunItThrice)
        => (ret'.err # "none" /\ board' = board /\ deck' = deck)]_vars

\* the classic rank signature of a hand: its ranks, those held most often
\* first and the higher rank first among equals (each coded count * 100 +
\* rank); the wheel's ace counts as 1
ClassicRanks(h) ==
    IF RankSet(h) = {ACE, 5, 4, 3, 2} /\ Len(h) = 5
    THEN <<105, 104, 103, 102, 101>>
    ELSE SortedDesc(SeqOfSet(
            {Cardinality({i \in DOMAIN h : h[i].rank = r}) * 100 + r :
                r \in RankSet(h)}))

GroupsOf(t) == t.group1 \o t.group2 \o t.group3 \o t.group4 \o t.group5

\* C13: two valid hands of the same tier and category and the same hand
\* level whose classic rank signatures differ get descriptors that differ
\* in a group field and compare, by group1..group5 in order, the way the
\* classic signatures compare.
C13_GroupsOrderSameCategory ==
    (held.err = "none" /\ strength.err = "none"
     /\ IsValidHand(held.cards) /\ IsValidHand(hand)
     /\ held.tup.level = strength.tup.level
     /\ held.tup.tier = strength.tup.tier
     /\ held.tup.category = strength.tup.category
     /\ ClassicRanks(held.cards) # ClassicRanks(hand))
    => /\ GroupsOf(held.tup) # GroupsOf(strength.tup)
       /\ TupleLess(GroupsOf(held.tup), GroupsOf(strength.tup))
            <=> TupleLess(ClassicRanks(held.cards), ClassicRanks(hand))

\* C14: a deal that fails because the deck holds fewer cards than asked
\* for, called directly or through deal_flop, deal_turn or deal_river,
\* removes no card: the deck's cards and their count are as before the call.
C14_FailedDealAtomic ==
    [][(((\E n \in 1..MaxDeal : Deal(n)) \/ DealFlop \/ DealTurn \/ DealRiver)
        /\ ret'.err = "IndexError")
       => (deck'.cards = deck.cards /\ len(deck') = len(deck))]_vars

====
